---- MODULE Spec2Model ----
(***************************************************************************)
(* Model of two parts of the obsidian sensor-model code:                   *)
(*   - the wire codec of the gravity sensor (src/serial/gravity.cpp):      *)
(*     serialise / unserialise of GravSpec, GravParams and GravResults;    *)
(*   - the configuration side of the magnetism sensor                      *)
(*     (src/input/magnetism.cpp): parseSpec, write, parseSensorReadings    *)
(*     and validateSensor.                                                 *)
(* Doubles are modelled by small integers; unsigned 32-bit integers keep   *)
(* their width (two 16-bit halves).                                        *)
(***************************************************************************)
EXTENDS Integers, Sequences, FiniteSets, TLC

(***************************************************************************)
(* Bounds of the model.                                                    *)
(***************************************************************************)
\* largest number of location rows / readings of a gravity value on the wire
MaxWireRows == 1
\* largest number of location rows / readings of a magnetism input table
MaxRows == 2

\* the values a double takes in a gravity value
Doubles == {1, 2}

(***************************************************************************)
(* Matrices (Eigen::MatrixXd / Eigen::VectorXd): a row count, a column     *)
(* count and the rows in order.                                            *)
(***************************************************************************)
EmptyMatrix == [rows |-> 0, cols |-> 0, m |-> <<>>]

MatricesOf(R, C, V) ==
  UNION {[rows : {r}, cols : {C}, m : [1..r -> [1..C -> V]]] : r \in 0..R}

\* Eigen's size(): the number of coefficients
MatrixSize(M) == M.rows * M.cols

RECURSIVE FlattenRows(_)
FlattenRows(rs) ==
  IF Len(rs) = 0 THEN <<>> ELSE Head(rs) \o FlattenRows(Tail(rs))

\* matrix codec, encode: the coefficients row after row, nothing else
matrixString(M) == FlattenRows(M.m)

\* matrix codec, decode: the row count comes from the message, the column
\* count is what the length of the string implies
stringMatrix(s, rows) ==
  LET cols == IF rows = 0 THEN 0 ELSE Len(s) \div rows
      ok   == IF rows = 0 THEN Len(s) = 0 ELSE Len(s) % rows = 0
  IN  [ok |-> ok,
       value |-> [rows |-> rows, cols |-> cols,
                  m |-> [i \in 1..rows |-> [j \in 1..cols |-> s[(i - 1) * cols + j]]]]]

(***************************************************************************)
(* Protocol buffers.  A message object holds the set of fields that are    *)
(* set and a value per field (the default while the field is not set).  A  *)
(* string is the sequence of the set fields, in the order they were        *)
(* written; a damaged string ends in bytes that are no field.              *)
(***************************************************************************)
GravSpecProtobuf ==
  [has |-> {},
   val |-> [numlocations |-> 0,
            locations |-> <<>>,
            voxelisation |-> [xresolution |-> 0, yresolution |-> 0,
                              zresolution |-> 0, supersample |-> 0],
            noise |-> [inversegammaalpha |-> 0, inversegammabeta |-> 0]]]

GravParamsProtobuf ==
  [has |-> {}, val |-> [returnsensordata |-> FALSE]]

GravResultsProtobuf ==
  [has |-> {}, val |-> [likelihood |-> 0, numreadings |-> 0, readings |-> <<>>]]

\* pb.set_<field>(v)
SetField(pb, name, v) ==
  [has |-> pb.has \cup {name}, val |-> [pb.val EXCEPT ![name] = v]]

\* the string of a message: its set fields in the order given
protobufToString(pb, order) ==
  LET set == SelectSeq(order, LAMBDA n : n \in pb.has)
  IN  [i \in 1..Len(set) |-> [tag |-> set[i], val |-> pb.val[set[i]]]]

\* pb.ParseFromString(s): the fields are taken in order until one does not
\* belong to the schema; the result tells whether the whole string parsed, and
\* the object keeps what was parsed before the failure
RECURSIVE ParseFromString(_, _)
ParseFromString(pb, s) ==
  IF Len(s) = 0 THEN [ret |-> TRUE, pb |-> pb]
  ELSE IF Head(s).tag \notin DOMAIN pb.val THEN [ret |-> FALSE, pb |-> pb]
  ELSE ParseFromString(SetField(pb, Head(s).tag, Head(s).val), Tail(s))

GravSpecOrder == <<"numlocations", "locations", "voxelisation", "noise">>
GravParamsOrder == <<"returnsensordata">>
GravResultsOrder == <<"likelihood", "numreadings", "readings">>

(***************************************************************************)
(* The gravity values.                                                     *)
(***************************************************************************)
\* voxelisation and noise of a GravSpec: the fields differ from one another,
\* so that a swap of two fields shows
GravScalars ==
  { [voxelisation |-> [xResolution |-> 1, yResolution |-> 2, zResolution |-> 3, supersample |-> 4],
     noise |-> [inverseGammaAlpha |-> 1, inverseGammaBeta |-> 2]],
    [voxelisation |-> [xResolution |-> 3, yResolution |-> 1, zResolution |-> 2, supersample |-> 0],
     noise |-> [inverseGammaAlpha |-> 2, inverseGammaBeta |-> 1]] }

GravSpecs ==
  { [locations |-> l, voxelisation |-> s.voxelisation, noise |-> s.noise] :
      l \in MatricesOf(MaxWireRows, 3, Doubles) \cup {EmptyMatrix}, s \in GravScalars }

GravParamsValues == [returnSensorData : BOOLEAN]

GravResultsValues ==
  [likelihood : Doubles, readings : MatricesOf(MaxWireRows + 1, 1, Doubles) \cup {EmptyMatrix}]

\* a default-constructed value: empty matrices; the scalar members have no
\* initialiser, so they hold whatever the build leaves there
DefaultGravSpecs ==
  { [locations |-> EmptyMatrix, voxelisation |-> s.voxelisation, noise |-> s.noise] :
      s \in GravScalars }
DefaultGravParams == [returnSensorData : BOOLEAN]
DefaultGravResults == [likelihood : Doubles, readings : {EmptyMatrix}]

(***************************************************************************)
(* serialise / unserialise                                                 *)
(***************************************************************************)
\* serialise with the y resolution taken from the z resolution
serialiseGravSpec_SwappedResolution(g) ==
  LET pb1 == SetField(GravSpecProtobuf, "numlocations", g.locations.rows)
      pb2 == SetField(pb1, "locations", matrixString(g.locations))
      pb3 == SetField(pb2, "voxelisation",
                      [xresolution |-> g.voxelisation.xResolution,
                       yresolution |-> g.voxelisation.zResolution,
                       zresolution |-> g.voxelisation.zResolution,
                       supersample |-> g.voxelisation.supersample])
      pb4 == SetField(pb3, "noise",
                      [inversegammaalpha |-> g.noise.inverseGammaAlpha,
                       inversegammabeta |-> g.noise.inverseGammaBeta])
  IN  protobufToString(pb4, GravSpecOrder)

serialiseGravSpec(g) ==
  LET pb1 == SetField(GravSpecProtobuf, "numlocations", g.locations.rows)
      pb2 == SetField(pb1, "locations", matrixString(g.locations))
      pb3 == SetField(pb2, "voxelisation",
                      [xresolution |-> g.voxelisation.xResolution,
                       yresolution |-> g.voxelisation.yResolution,
                       zresolution |-> g.voxelisation.zResolution,
                       supersample |-> g.voxelisation.supersample])
      pb4 == SetField(pb3, "noise",
                      [inversegammaalpha |-> g.noise.inverseGammaAlpha,
                       inversegammabeta |-> g.noise.inverseGammaBeta])
  IN  protobufToString(pb4, GravSpecOrder)

\* the value of g after the call, and the error the call ended in
unserialiseGravSpec(s, g) ==
  LET pb == ParseFromString(GravSpecProtobuf, s).pb
      sm == stringMatrix(pb.val.locations, pb.val.numlocations)
  IN  IF ~sm.ok
      THEN [g |-> g, err |-> "MalformedPayload"]
      ELSE [g |-> [locations |-> sm.value,
                   voxelisation |-> [xResolution |-> pb.val.voxelisation.xresolution,
                                     yResolution |-> pb.val.voxelisation.yresolution,
                                     zResolution |-> pb.val.voxelisation.zresolution,
                                     supersample |-> pb.val.voxelisation.supersample],
                   noise |-> [inverseGammaAlpha |-> pb.val.noise.inversegammaalpha,
                              inverseGammaBeta |-> pb.val.noise.inversegammabeta]],
            err |-> "none"]

serialiseGravParams(g) ==
  protobufToString(SetField(GravParamsProtobuf, "returnsensordata", g.returnSensorData),
                   GravParamsOrder)

unserialiseGravParams(s, g) ==
  LET pb == ParseFromString(GravParamsProtobuf, s).pb
  IN  [g |-> [returnSensorData |-> pb.val.returnsensordata], err |-> "none"]

serialiseGravResults(g) ==
  LET pb1 == SetField(GravResultsProtobuf, "likelihood", g.likelihood)
      pb2 == IF MatrixSize(g.readings) > 0
             THEN SetField(SetField(pb1, "numreadings", MatrixSize(g.readings)),
                           "readings", matrixString(g.readings))
             ELSE pb1
  IN  protobufToString(pb2, GravResultsOrder)

unserialiseGravResults(s, g) ==
  LET pb == ParseFromString(GravResultsProtobuf, s).pb
      sm == stringMatrix(pb.val.readings, pb.val.numreadings)
  IN  IF "readings" \in pb.has
      THEN IF ~sm.ok
           THEN [g |-> [g EXCEPT !.likelihood = pb.val.likelihood], err |-> "MalformedPayload"]
           ELSE [g |-> [likelihood |-> pb.val.likelihood, readings |-> sm.value],
                 err |-> "none"]
      ELSE [g |-> [g EXCEPT !.likelihood = pb.val.likelihood], err |-> "none"]

(***************************************************************************)
(* Numbers of the magnetism input.  An unsigned int (uint) is 32 bits wide *)
(* and is kept as two 16-bit halves; an int is a 32-bit two's complement   *)
(* number; a double is modelled by a small integer.                        *)
(***************************************************************************)
Half == 65536

\* uint(i): the conversion of an int to unsigned keeps the 32 bits
uint(i) ==
  IF i >= 0
  THEN [hi |-> i \div Half, lo |-> i % Half]
  ELSE LET j == (i + 2147483647) + 1
       IN  [hi |-> 32768 + (j \div Half), lo |-> j % Half]

\* the int with the same 32 bits as an unsigned
IntOfUInt(u) ==
  IF u.hi < 32768
  THEN u.hi * Half + u.lo
  ELSE (((u.hi - 32768) * Half + u.lo) - 2147483647) - 1

\* u <= 0 of an unsigned
UIntLeqZero(u) == u.hi = 0 /\ u.lo = 0

(***************************************************************************)
(* Text.  A number written as text is a sign and decimal digits.           *)
(***************************************************************************)
RECURSIVE UIntDigits(_)
UIntDigits(u) ==
  LET t == (u.hi % 10) * Half + u.lo
      q == [hi |-> u.hi \div 10, lo |-> t \div 10]
  IN  IF q.hi = 0 /\ q.lo = 0 THEN <<t % 10>> ELSE Append(UIntDigits(q), t % 10)

\* the unsigned the digits denote, within 32 bits
RECURSIVE DigitsUInt(_, _)
DigitsUInt(acc, ds) ==
  IF Len(ds) = 0 THEN acc
  ELSE LET lo == acc.lo * 10 + Head(ds)
           hi == acc.hi * 10 + (lo \div Half)
       IN  DigitsUInt([hi |-> hi % Half, lo |-> lo % Half], Tail(ds))

Abs(d) == IF d < 0 THEN 0 - d ELSE d

\* io::to_string of an unsigned and of a double
UIntToString(u) == [neg |-> FALSE, digits |-> UIntDigits(u)]
DoubleToString(d) == [neg |-> d < 0, digits |-> UIntDigits(uint(Abs(d)))]

\* io::to_string(a, b, c): the three numbers, separated
to_string3(a, b, c) == <<a, b, c>>

\* text read as the declared type of an option
StringToUInt(s) == DigitsUInt(uint(0), s.digits)
StringToInt(s) ==
  LET v == IntOfUInt(DigitsUInt(uint(0), s.digits)) IN IF s.neg THEN 0 - v ELSE v
StringToDouble(s) ==
  LET v == IntOfUInt(DigitsUInt(uint(0), s.digits)) IN IF s.neg THEN 0 - v ELSE v

(***************************************************************************)
(* Tables (io::csv): a file holds the rows of a matrix as text.            *)
(***************************************************************************)
csvWrite(M) == [i \in 1..M.rows |-> [j \in 1..M.cols |-> DoubleToString(M.m[i][j])]]

csvRead(table) ==
  LET cols == IF Len(table) = 0 THEN 0 ELSE Len(table[1])
  IN  [rows |-> Len(table), cols |-> cols,
       m |-> [i \in 1..Len(table) |-> [j \in 1..cols |-> StringToDouble(table[i][j])]]]

(***************************************************************************)
(* Configuration of the magnetism sensor.                                  *)
(***************************************************************************)
configHeading == "magnetism"

\* the name "<heading>.<option>" of an option
Option(heading, name) == <<heading, name>>

\* the options of a heading that a record of option values stands for
Options(heading, values) ==
  [o \in {Option(heading, n) : n \in DOMAIN values} |-> values[o[2]]]

\* the options of the sensor and their declared types
initSensorInputFileOptions ==
  Options("magnetism",
          [enabled         |-> "bool",
           sensorLocations |-> "string",
           sensorReadings  |-> "string",
           gridResolution  |-> "Vector3i",
           noiseAlpha      |-> "double",
           noiseBeta       |-> "double",
           supersample     |-> "uint",
           magneticField   |-> "Vector3d"])

\* the value of an option given as text, by the declared type of the option
OptionValue(type, text) ==
  CASE type = "string"   -> text
    [] type = "uint"     -> StringToUInt(text)
    [] type = "double"   -> StringToDouble(text)
    [] type = "Vector3i" -> [k \in 1..3 |-> StringToInt(text[k])]
    [] type = "Vector3d" -> [k \in 1..3 |-> StringToDouble(text[k])]

\* build_vm(vm, od, topic, map): vm with the options of map added under the
\* heading topic, each read from its text as the description od declares it
build_vm(vm, od, topic, map) ==
  LET new == Options(topic, map)
  IN  [o \in (DOMAIN vm) \cup (DOMAIN new) |->
         IF o \in DOMAIN new THEN OptionValue(od[o], new[o]) ELSE vm[o]]

EmptyVm == [n \in {} |-> 0]

\* the forward model of this file
MAGNETICS == "MAGNETICS"

\* a default-constructed MagSpec / MagResults: empty matrices; the members
\* without initialiser hold whatever the build leaves there
DefaultMagSpecs ==
  { [locations |-> EmptyMatrix,
     voxelisation |-> [xResolution |-> uint(v), yResolution |-> uint(0),
                       zResolution |-> uint(v), supersample |-> uint(v)],
     noise |-> [inverseGammaAlpha |-> v, inverseGammaBeta |-> v],
     backgroundField |-> <<v, v, 0>>] : v \in {0, 7} }

DefaultMagResults == [likelihood : {0, 7}, readings : {EmptyMatrix}]

\* the options parseSpec looks up, in the order it does
SpecOptions ==
  <<Option("magnetism", "sensorLocations"), Option("magnetism", "gridResolution"),
    Option("magnetism", "supersample"), Option("magnetism", "noiseAlpha"),
    Option("magnetism", "noiseBeta"), Option("magnetism", "magneticField")>>

\* the options looked up until the first one the configuration does not have
LookedUp(vm, order) ==
  LET missing == {i \in 1..Len(order) : order[i] \notin DOMAIN vm}
  IN  {order[i] : i \in {k \in 1..Len(order) : \A m \in missing : k <= m}}

\* parseSpec with the test of sensorsEnabled left out
parseSpec_AlwaysRead(vm, files, sensorsEnabled, spec) ==
  IF \E i \in 1..Len(SpecOptions) : SpecOptions[i] \notin DOMAIN vm
  THEN [spec |-> spec, err |-> "MissingOption",
        options |-> LookedUp(vm, SpecOptions),
             files |-> IF Option("magnetism", "sensorLocations") \in DOMAIN vm
                       THEN {vm[Option("magnetism", "sensorLocations")]} ELSE {}]
  ELSE LET magRes == vm[Option("magnetism", "gridResolution")]
       IN  [spec |-> [locations |-> csvRead(files[vm[Option("magnetism", "sensorLocations")]]),
                      voxelisation |-> [xResolution |-> uint(magRes[1]),
                                        yResolution |-> uint(magRes[2]),
                                        zResolution |-> uint(magRes[3]),
                                        supersample |-> vm[Option("magnetism", "supersample")]],
                      noise |-> [inverseGammaAlpha |-> vm[Option("magnetism", "noiseAlpha")],
                                 inverseGammaBeta |-> vm[Option("magnetism", "noiseBeta")]],
                      backgroundField |-> vm[Option("magnetism", "magneticField")]],
            err |-> "none",
            options |-> LookedUp(vm, SpecOptions),
            files |-> {vm[Option("magnetism", "sensorLocations")]}]

\* parseSpec(vm, sensorsEnabled), where spec is the default-constructed MagSpec
\* it starts from and files is the file system: the value returned, the error
\* the call ended in, the options looked up and the files read
parseSpec(vm, files, sensorsEnabled, spec) ==
  IF MAGNETICS \in sensorsEnabled
  THEN IF \E i \in 1..Len(SpecOptions) : SpecOptions[i] \notin DOMAIN vm
       THEN [spec |-> spec, err |-> "MissingOption",
             options |-> LookedUp(vm, SpecOptions),
             files |-> IF Option("magnetism", "sensorLocations") \in DOMAIN vm
                       THEN {vm[Option("magnetism", "sensorLocations")]} ELSE {}]
       ELSE LET magRes == vm[Option("magnetism", "gridResolution")]
            IN  [spec |-> [locations |-> csvRead(files[vm[Option("magnetism", "sensorLocations")]]),
                           voxelisation |-> [xResolution |-> uint(magRes[1]),
                                             yResolution |-> uint(magRes[2]),
                                             zResolution |-> uint(magRes[3]),
                                             supersample |-> vm[Option("magnetism", "supersample")]],
                           noise |-> [inverseGammaAlpha |-> vm[Option("magnetism", "noiseAlpha")],
                                      inverseGammaBeta |-> vm[Option("magnetism", "noiseBeta")]],
                           backgroundField |-> vm[Option("magnetism", "magneticField")]],
                 err |-> "none",
                 options |-> LookedUp(vm, SpecOptions),
                 files |-> {vm[Option("magnetism", "sensorLocations")]}]
  ELSE [spec |-> spec, err |-> "none", options |-> {}, files |-> {}]

\* the path prefix + name
Path(prefix, name) == [dir |-> prefix, name |-> name]

\* write with the z resolution written in place of the y resolution
writeMagSpec_RepeatedResolution(prefix, spec, od) ==
  [files |-> [p \in {Path(prefix, "sensorLocations.csv")} |-> csvWrite(spec.locations)],
   vm |-> build_vm(EmptyVm, od, "magnetism",
            [sensorLocations |-> Path(prefix, "sensorLocations.csv"),
             gridResolution |-> to_string3(UIntToString(spec.voxelisation.xResolution),
                                           UIntToString(spec.voxelisation.zResolution),
                                           UIntToString(spec.voxelisation.zResolution)),
             supersample |-> UIntToString(spec.voxelisation.supersample),
             noiseAlpha |-> DoubleToString(spec.noise.inverseGammaAlpha),
             noiseBeta |-> DoubleToString(spec.noise.inverseGammaBeta),
             magneticField |-> to_string3(DoubleToString(spec.backgroundField[1]),
                                          DoubleToString(spec.backgroundField[2]),
                                          DoubleToString(spec.backgroundField[3]))])]

\* write(prefix, spec, od): the files written and the variables map returned
writeMagSpec(prefix, spec, od) ==
  [files |-> [p \in {Path(prefix, "sensorLocations.csv")} |-> csvWrite(spec.locations)],
   vm |-> build_vm(EmptyVm, od, "magnetism",
            [sensorLocations |-> Path(prefix, "sensorLocations.csv"),
             gridResolution |-> to_string3(UIntToString(spec.voxelisation.xResolution),
                                           UIntToString(spec.voxelisation.yResolution),
                                           UIntToString(spec.voxelisation.zResolution)),
             supersample |-> UIntToString(spec.voxelisation.supersample),
             noiseAlpha |-> DoubleToString(spec.noise.inverseGammaAlpha),
             noiseBeta |-> DoubleToString(spec.noise.inverseGammaBeta),
             magneticField |-> to_string3(DoubleToString(spec.backgroundField[1]),
                                          DoubleToString(spec.backgroundField[2]),
                                          DoubleToString(spec.backgroundField[3]))])]

\* parseSensorReadings(vm, sensorsEnabled), s the default-constructed MagResults
parseSensorReadings(vm, files, sensorsEnabled, s) ==
  IF MAGNETICS \in sensorsEnabled
  THEN IF Option("magnetism", "sensorReadings") \notin DOMAIN vm
       THEN [results |-> s, err |-> "MissingOption",
             options |-> {Option("magnetism", "sensorReadings")}, files |-> {}]
       ELSE [results |-> [readings |-> csvRead(files[vm[Option("magnetism", "sensorReadings")]]),
                          likelihood |-> 0],
             err |-> "none",
             options |-> {Option("magnetism", "sensorReadings")},
             files |-> {vm[Option("magnetism", "sensorReadings")]}]
  ELSE [results |-> s, err |-> "none", options |-> {}, files |-> {}]

\* write(prefix, g, od) of a MagResults
writeMagResults(prefix, g, od) ==
  [files |-> [p \in {Path(prefix, "sensorReadings.csv")} |-> csvWrite(g.readings)],
   vm |-> build_vm(EmptyVm, od, "magnetism",
            [sensorReadings |-> Path(prefix, "sensorReadings.csv")])]

(***************************************************************************)
(* validateSensor.  The function goes through its checks in order; st is   *)
(* the value of valid and the diagnostics logged so far.                   *)
(***************************************************************************)
Diagnostic(check, a, b) == [check |-> check, a |-> a, b |-> b]

\* LOG(ERROR) << ...; valid = false;
Fail(st, d) == [valid |-> FALSE, log |-> Append(st.log, d)]

CheckLocationCount(st, spec) ==
  IF spec.locations.rows = 0
  THEN Fail(st, Diagnostic("no locations", 0, 0))
  ELSE st

CheckColumns(st, spec) ==
  IF spec.locations.cols # 3
  THEN Fail(st, Diagnostic("three cols", 0, 0))
  ELSE st

\* the test of one location with the upper bounds taken as exclusive
OutOfBounds_Exclusive(world, row) ==
  \/ row[1] < world.xBounds[1]
  \/ row[1] >= world.xBounds[2]
  \/ row[2] < world.yBounds[1]
  \/ row[2] >= world.yBounds[2]

\* the test of one location
OutOfBounds(world, row) ==
  \/ row[1] < world.xBounds[1]
  \/ row[1] > world.xBounds[2]
  \/ row[2] < world.yBounds[1]
  \/ row[2] > world.yBounds[2]

\* the loop over the locations, from location l (0-based) on
RECURSIVE CheckBounds(_, _, _, _)
CheckBounds(st, world, spec, l) ==
  IF l < spec.locations.rows
  THEN CheckBounds(IF OutOfBounds(world, spec.locations.m[l + 1])
                   THEN Fail(st, Diagnostic("out of world bounds", l + 1, 0))
                   ELSE st,
                   world, spec, l + 1)
  ELSE st

\* the check of the voxelisation made only while no earlier check has failed
CheckVoxelisation_ShortCircuit(st, spec) ==
  IF st.valid /\ (\/ UIntLeqZero(spec.voxelisation.xResolution)
                  \/ UIntLeqZero(spec.voxelisation.yResolution)
                  \/ UIntLeqZero(spec.voxelisation.zResolution))
  THEN Fail(st, Diagnostic("voxelisation", 0, 0))
  ELSE st

CheckVoxelisation(st, spec) ==
  IF \/ UIntLeqZero(spec.voxelisation.xResolution)
     \/ UIntLeqZero(spec.voxelisation.yResolution)
     \/ UIntLeqZero(spec.voxelisation.zResolution)
  THEN Fail(st, Diagnostic("voxelisation", 0, 0))
  ELSE st

CheckNoise(st, spec) ==
  IF spec.noise.inverseGammaAlpha <= 0 \/ spec.noise.inverseGammaAlpha <= 0
  THEN Fail(st, Diagnostic("noise", 0, 0))
  ELSE st

CheckReadingCount(st, spec, result) ==
  IF spec.locations.rows # MatrixSize(result.readings)
  THEN Fail(st, Diagnostic("number of readings", MatrixSize(result.readings),
                           spec.locations.rows))
  ELSE st

validateSensor(world, spec, result) ==
  LET s0 == [valid |-> TRUE, log |-> <<>>]
      s1 == CheckLocationCount(s0, spec)
      s2 == CheckColumns(s1, spec)
      s3 == CheckBounds(s2, world, spec, 0)
      s4 == CheckVoxelisation(s3, spec)
      s5 == CheckNoise(s4, spec)
      s6 == CheckReadingCount(s5, spec, result)
  IN  s6

(***************************************************************************)
(* State of the wire codec: a sender serialises values of one kind, the    *)
(* string travels (and may be damaged on the way), a receiver unserialises *)
(* it into a target object it owns.                                        *)
(***************************************************************************)
VARIABLES
  kind,    \* the message kind sender and receiver exchange
  x,       \* the value last serialised
  wire,    \* the strings in flight (at most one)
  y,       \* the receiver's target object
  yFresh,  \* y is default-constructed and no call has written to it
  err,     \* the error the last unserialise ended in
  last     \* what the last operation was, and how it found the target

serialVars == <<kind, x, wire, y, yFresh, err, last>>

\* the input side (described with its operations below)
VARIABLES
  vm,             \* the variables map of the configuration
  files,          \* the file system: the table held by each file
  sensorsEnabled, \* the forward models enabled
  world,          \* the world the sensors are validated against
  parsedSpec,     \* the MagSpec parseSpec returned, once it has
  parsedResults,  \* the MagResults parseSensorReadings returned, once it has
  validated,      \* what validateSensor returned and logged, once it has
  written,        \* the MagSpec given to write, once it has been
  reparsedSpec,   \* the MagSpec parsed from what write returned, once it has
  optionsRead,    \* the options looked up so far
  filesRead,      \* the files read so far
  perr            \* the error a parse ended in

inputVars == <<vm, files, sensorsEnabled, world, parsedSpec, parsedResults,
               validated, written, reparsedSpec, optionsRead, filesRead, perr>>

Kinds == {"GravSpec", "GravParams", "GravResults"}

NewProtobuf(k) ==
  CASE k = "GravSpec" -> GravSpecProtobuf
    [] k = "GravParams" -> GravParamsProtobuf
    [] k = "GravResults" -> GravResultsProtobuf

Defaults(k) ==
  CASE k = "GravSpec" -> DefaultGravSpecs
    [] k = "GravParams" -> DefaultGravParams
    [] k = "GravResults" -> DefaultGravResults

\* the string parses as a message of kind k
WellFormed(k, s) == ParseFromString(NewProtobuf(k), s).ret

NoOp == [op |-> "none", fresh |-> FALSE, intact |-> FALSE, stale |-> FALSE, absent |-> FALSE]

InitSerial ==
  /\ kind \in Kinds
  /\ y \in Defaults(kind)
  /\ x = y
  /\ wire = <<>>
  /\ yFresh = TRUE
  /\ err = "none"
  /\ last = NoOp

Send(v, s) ==
  /\ Len(wire) = 0
  /\ x' = v
  /\ wire' = <<s>>
  /\ last' = [NoOp EXCEPT !.op = "serialise"]
  /\ UNCHANGED <<kind, y, yFresh, err>>
  /\ UNCHANGED inputVars

SerialiseGravSpec ==
  /\ kind = "GravSpec"
  /\ \E g \in GravSpecs : Send(g, serialiseGravSpec(g))

SerialiseGravParams ==
  /\ kind = "GravParams"
  /\ \E g \in GravParamsValues : Send(g, serialiseGravParams(g))

SerialiseGravResults ==
  /\ kind = "GravResults"
  /\ \E g \in GravResultsValues : Send(g, serialiseGravResults(g))

\* the transport damages the string: a prefix of it arrives, followed by bytes
\* that belong to no field
Damage ==
  /\ Len(wire) = 1
  /\ WellFormed(kind, wire[1])
  /\ \E k \in 0..Len(wire[1]) :
       wire' = <<SubSeq(wire[1], 1, k) \o <<[tag |-> "garbage", val |-> 0]>> >>
  /\ last' = [NoOp EXCEPT !.op = "damage"]
  /\ UNCHANGED <<kind, x, y, yFresh, err>>
  /\ UNCHANGED inputVars

Receive(r, stale) ==
  /\ y' = r.g
  /\ err' = r.err
  /\ wire' = <<>>
  /\ yFresh' = FALSE
  /\ last' = [op |-> "unserialise", fresh |-> yFresh,
              intact |-> WellFormed(kind, wire[1]), stale |-> stale,
              absent |-> \A i \in 1..Len(wire[1]) : wire[1][i].tag # "readings"]
  /\ UNCHANGED <<kind, x>>
  /\ UNCHANGED inputVars

UnserialiseGravSpec ==
  /\ kind = "GravSpec"
  /\ Len(wire) = 1
  /\ Receive(unserialiseGravSpec(wire[1], y), FALSE)

UnserialiseGravParams ==
  /\ kind = "GravParams"
  /\ Len(wire) = 1
  /\ Receive(unserialiseGravParams(wire[1], y), FALSE)

UnserialiseGravResults ==
  /\ kind = "GravResults"
  /\ Len(wire) = 1
  /\ Receive(unserialiseGravResults(wire[1], y), MatrixSize(y.readings) > 0)

\* the receiver default-constructs a new target object
Construct ==
  /\ Len(wire) = 0
  /\ ~yFresh
  /\ y' \in Defaults(kind)
  /\ yFresh' = TRUE
  /\ last' = [NoOp EXCEPT !.op = "construct"]
  /\ UNCHANGED <<kind, x, wire, err>>
  /\ UNCHANGED inputVars

NextSerial ==
  \/ SerialiseGravSpec
  \/ SerialiseGravParams
  \/ SerialiseGravResults
  \/ Damage
  \/ UnserialiseGravSpec
  \/ UnserialiseGravParams
  \/ UnserialiseGravResults
  \/ Construct


(***************************************************************************)
(* State of the input side: a configuration and the files it names, the    *)
(* values parsed from it, the outcome of the validation, and the           *)
(* configuration written back and parsed again.                            *)
(***************************************************************************)
vars == <<serialVars, inputVars>>

\* the world of the model: x in [1, 2], y in [1, 3]
Worlds == {[xBounds |-> <<1, 2>>, yBounds |-> <<1, 3>>]}

\* location rows: on the bounds, outside in x, outside in y, outside in both
Points == {<<1, 3, 0>>, <<2, 1, 7>>, <<3, 2, 0>>, <<1, 0, 7>>, <<0, 4, 0>>}

LocationTables ==
  { <<>> } \cup
  UNION { [1..r -> {[j \in 1..3 |-> DoubleToString(p[j])] : p \in Points}] : r \in 1..MaxRows } \cup
  { <<[j \in 1..2 |-> DoubleToString(Points10[j])]>> : Points10 \in {<<1, 1>>} }

ReadingTables == { [i \in 1..n |-> <<DoubleToString(i)>>] : n \in 0..MaxRows }

GridResolutions ==
  {<<1, 2, 3>>, <<0, 2, 3>>, <<1, 2, 0>>, <<-1, 2, 3>>, <<1, -2, 3>>}

NoiseValues == {<<2, 3>>, <<0, 3>>, <<2, 0>>, <<2, -1>>, <<-1, -1>>}

OtherValues ==
  { [supersample |-> uint(0), magneticField |-> <<1, 2, 3>>],
    [supersample |-> uint(4), magneticField |-> <<-3, 0, 5>>] }

UserLocations == Path("", "locations.csv")
UserReadings == Path("", "readings.csv")

\* a configuration that has every option of the sensor
FullConfigurations ==
  { Options("magnetism",
            [sensorLocations |-> UserLocations,
             sensorReadings  |-> UserReadings,
             gridResolution  |-> g,
             noiseAlpha      |-> n[1],
             noiseBeta       |-> n[2],
             supersample     |-> o.supersample,
             magneticField   |-> o.magneticField]) :
       g \in GridResolutions, n \in NoiseValues, o \in OtherValues }

NoFiles == [p \in {} |-> <<>>]

InputIdle ==
  /\ vm = EmptyVm
  /\ files = NoFiles
  /\ sensorsEnabled = {}
  /\ world \in Worlds
  /\ parsedSpec = <<>>
  /\ parsedResults = <<>>
  /\ validated = <<>>
  /\ written = <<>>
  /\ reparsedSpec = <<>>
  /\ optionsRead = {}
  /\ filesRead = {}
  /\ perr = "none"

SerialIdle ==
  /\ kind = "GravParams"
  /\ y = [returnSensorData |-> FALSE]
  /\ x = y
  /\ wire = <<>>
  /\ yFresh = TRUE
  /\ err = "none"
  /\ last = NoOp

\* the user's configuration: every option of the sensor and the two files, or
\* no option of the sensor and no file
InitInput ==
  /\ SerialIdle
  /\ sensorsEnabled \in SUBSET {MAGNETICS}
  /\ world \in Worlds
  /\ \/ /\ vm \in FullConfigurations
        /\ \E l \in LocationTables, r \in ReadingTables :
             files = [p \in {UserLocations, UserReadings} |->
                        IF p = UserLocations THEN l ELSE r]
     \/ /\ vm = EmptyVm
        /\ files = NoFiles
  /\ parsedSpec = <<>>
  /\ parsedResults = <<>>
  /\ validated = <<>>
  /\ written = <<>>
  /\ reparsedSpec = <<>>
  /\ optionsRead = {}
  /\ filesRead = {}
  /\ perr = "none"

ParseSpec ==
  /\ parsedSpec = <<>>
  /\ perr = "none"
  /\ \E d \in DefaultMagSpecs :
       LET r == parseSpec(vm, files, sensorsEnabled, d)
       IN  /\ parsedSpec' = IF r.err = "none" THEN <<r.spec>> ELSE <<>>
           /\ perr' = r.err
           /\ optionsRead' = optionsRead \cup r.options
           /\ filesRead' = filesRead \cup r.files
  /\ UNCHANGED <<vm, files, sensorsEnabled, world, parsedResults, validated, written,
                 reparsedSpec>>
  /\ UNCHANGED serialVars

ParseSensorReadings ==
  /\ parsedSpec # <<>>
  /\ parsedResults = <<>>
  /\ written = <<>>
  /\ perr = "none"
  /\ \E d \in DefaultMagResults :
       LET r == parseSensorReadings(vm, files, sensorsEnabled, d)
       IN  /\ parsedResults' = IF r.err = "none" THEN <<r.results>> ELSE <<>>
           /\ perr' = r.err
           /\ optionsRead' = optionsRead \cup r.options
           /\ filesRead' = filesRead \cup r.files
  /\ UNCHANGED <<vm, files, sensorsEnabled, world, parsedSpec, validated, written,
                 reparsedSpec>>
  /\ UNCHANGED serialVars

ValidateSensor ==
  /\ parsedSpec # <<>>
  /\ parsedResults # <<>>
  /\ validated = <<>>
  /\ validated' = <<validateSensor(world, parsedSpec[1], parsedResults[1])>>
  /\ UNCHANGED <<vm, files, sensorsEnabled, world, parsedSpec, parsedResults, written,
                 reparsedSpec, optionsRead, filesRead, perr>>
  /\ UNCHANGED serialVars

\* write(prefix, spec, od): the files are written, and the caller goes on with
\* the variables map returned
WriteSpec ==
  /\ validated # <<>>
  /\ written = <<>>
  /\ LET w == writeMagSpec("out/", parsedSpec[1], initSensorInputFileOptions)
     IN  /\ files' = [p \in (DOMAIN files) \cup (DOMAIN w.files) |->
                        IF p \in DOMAIN w.files THEN w.files[p] ELSE files[p]]
         /\ vm' = w.vm
  /\ written' = <<parsedSpec[1]>>
  /\ UNCHANGED <<sensorsEnabled, world, parsedSpec, parsedResults, validated,
                 reparsedSpec, optionsRead, filesRead, perr>>
  /\ UNCHANGED serialVars

\* parseSpec of the variables map that write returned
ReparseSpec ==
  /\ written # <<>>
  /\ reparsedSpec = <<>>
  /\ perr = "none"
  /\ \E d \in DefaultMagSpecs :
       LET r == parseSpec(vm, files, sensorsEnabled, d)
       IN  /\ reparsedSpec' = IF r.err = "none" THEN <<r.spec>> ELSE <<>>
           /\ perr' = r.err
           /\ optionsRead' = optionsRead \cup r.options
           /\ filesRead' = filesRead \cup r.files
  /\ UNCHANGED <<vm, files, sensorsEnabled, world, parsedSpec, parsedResults, validated,
                 written>>
  /\ UNCHANGED serialVars

NextInput ==
  \/ ParseSpec
  \/ ParseSensorReadings
  \/ ValidateSensor
  \/ WriteSpec
  \/ ReparseSpec

SpecInput == InitInput /\ [][NextInput]_vars

Init == InitSerial /\ InputIdle
Next == NextSerial
Spec == Init /\ [][Next]_vars

(***************************************************************************)
(* Properties of the wire codec.                                           *)
(***************************************************************************)
\* the same row count and the same coefficients in the same order
SameMatrix(A, B) ==
  /\ A.rows = B.rows
  /\ \A i \in 1..A.rows : A.m[i] = B.m[i]

SameValue(k, a, b) ==
  CASE k = "GravSpec" ->
         /\ SameMatrix(a.locations, b.locations)
         /\ a.voxelisation.xResolution = b.voxelisation.xResolution
         /\ a.voxelisation.yResolution = b.voxelisation.yResolution
         /\ a.voxelisation.zResolution = b.voxelisation.zResolution
         /\ a.voxelisation.supersample = b.voxelisation.supersample
         /\ a.noise.inverseGammaAlpha = b.noise.inverseGammaAlpha
         /\ a.noise.inverseGammaBeta = b.noise.inverseGammaBeta
    [] k = "GravParams" -> a.returnSensorData = b.returnSensorData
    [] k = "GravResults" ->
         /\ SameMatrix(a.readings, b.readings)
         /\ a.likelihood = b.likelihood

Tags(s) == {s[i].tag : i \in 1..Len(s)}

\* the last operation unserialised an undamaged string into a fresh target
DecodedIntoFresh == last.op = "unserialise" /\ last.fresh /\ last.intact

\* C1: for every GravSpec, GravParams and GravResults value x (zero locations
\* and zero readings included), unserialise(serialise(x), y) on a freshly
\* default-constructed y ends without error and leaves y equal to x field by
\* field: the same row count and coefficient order of locations / readings,
\* the three resolutions, supersample, both noise hyperparameters,
\* returnSensorData and likelihood.
C1_RoundTrip == DecodedIntoFresh => (err = "none" /\ SameValue(kind, y, x))

\* a GravSpec with a location row has gone through the round trip
C1_Witness ==
  /\ DecodedIntoFresh
  /\ kind = "GravSpec"
  /\ x.locations.rows > 0
  /\ y.locations.rows = x.locations.rows

\* C2: when unserialise is given a string that does not parse as the expected
\* message, the call ends in a MalformedPayload error and leaves the caller's
\* target exactly as it was: no field is overwritten with a default or with a
\* partially parsed value.
C2_MalformedRejected ==
  [][(Len(wire) = 1 /\ Len(wire') = 0 /\ ~WellFormed(kind, wire[1]))
       => (err' = "MalformedPayload" /\ y' = y)]_vars

\* C3: serialise(GravResults) writes readings and numreadings only when
\* readings is non-empty, and after unserialise of a message without readings
\* the target's readings are empty, whatever the target held before.
C3_AbsentReadingsEmpty ==
  /\ (kind = "GravResults" /\ last.op = "serialise")
       => /\ ("readings" \in Tags(wire[1])) <=> (MatrixSize(x.readings) > 0)
          /\ ("numreadings" \in Tags(wire[1])) <=> (MatrixSize(x.readings) > 0)
  /\ (kind = "GravResults" /\ last.op = "unserialise" /\ last.intact /\ last.absent)
       => MatrixSize(y.readings) = 0

(***************************************************************************)
(* Properties of the input side.                                           *)
(***************************************************************************)
\* the number of diagnostics of a check in a log
Count(log, check) == Cardinality({i \in 1..Len(log) : log[i].check = check})

\* the locations (1-based) with x or y outside the bounds of the world
Offending(w, spec) ==
  {l \in 1..spec.locations.rows :
     \/ spec.locations.m[l][1] < w.xBounds[1] \/ spec.locations.m[l][1] > w.xBounds[2]
     \/ spec.locations.m[l][2] < w.yBounds[1] \/ spec.locations.m[l][2] > w.yBounds[2]}

ZeroResolution(spec) ==
  \E r \in {spec.voxelisation.xResolution, spec.voxelisation.yResolution,
            spec.voxelisation.zResolution} : r.hi = 0 /\ r.lo = 0

Enabled == MAGNETICS \in sensorsEnabled

\* C4: validateSensor never short-circuits: every check is made whether or
\* not an earlier one failed, every failing check logs its own diagnostic (one
\* per offending location for the bounds), and the boolean returned is true
\* exactly when no diagnostic was logged.  (Of the noise check only what holds
\* of either reading of it is stated here: a non-positive alpha is reported,
\* and a report means a non-positive hyperparameter.)
C4_EveryCheckReported ==
  validated # <<>> =>
    LET r == validated[1]
        spec == parsedSpec[1]
        res == parsedResults[1]
    IN  /\ r.valid <=> (Len(r.log) = 0)
        /\ Count(r.log, "no locations") = (IF spec.locations.rows = 0 THEN 1 ELSE 0)
        /\ Count(r.log, "three cols") = (IF spec.locations.cols # 3 THEN 1 ELSE 0)
        /\ Count(r.log, "out of world bounds") = Cardinality(Offending(world, spec))
        /\ \A l \in Offending(world, spec) :
             \E i \in 1..Len(r.log) : r.log[i] = Diagnostic("out of world bounds", l, 0)
        /\ Count(r.log, "voxelisation") = (IF ZeroResolution(spec) THEN 1 ELSE 0)
        /\ Count(r.log, "noise") <= 1
        /\ spec.noise.inverseGammaAlpha <= 0 => Count(r.log, "noise") = 1
        /\ Count(r.log, "noise") = 1 =>
             (spec.noise.inverseGammaAlpha <= 0 \/ spec.noise.inverseGammaBeta <= 0)
        /\ Count(r.log, "number of readings") =
             (IF spec.locations.rows # MatrixSize(res.readings) THEN 1 ELSE 0)

\* a validation in which the first check failed and four later ones reported
C4_Witness ==
  /\ validated # <<>>
  /\ Count(validated[1].log, "no locations") = 1
  /\ Count(validated[1].log, "three cols") = 1
  /\ Count(validated[1].log, "voxelisation") = 1
  /\ Count(validated[1].log, "noise") = 1
  /\ Count(validated[1].log, "number of readings") = 1

\* C5: validateSensor returns false and logs the noise diagnostic whenever
\* inverseGammaAlpha <= 0 or inverseGammaBeta <= 0, whatever the other fields.
C5_NoiseRejected ==
  (validated # <<>> /\ (\/ parsedSpec[1].noise.inverseGammaAlpha <= 0
                        \/ parsedSpec[1].noise.inverseGammaBeta <= 0))
    => (~validated[1].valid /\ Count(validated[1].log, "noise") = 1)

\* the spec and the results pass every check but that of the bounds
PassesOtherChecks(spec, res) ==
  /\ spec.locations.rows > 0
  /\ spec.locations.cols = 3
  /\ ~ZeroResolution(spec)
  /\ spec.noise.inverseGammaAlpha > 0
  /\ spec.noise.inverseGammaBeta > 0
  /\ spec.locations.rows = MatrixSize(res.readings)

ZValues == {-5, 0, 99}

\* C6: for a spec and results that pass every other check, validateSensor
\* returns false exactly when some location has x outside [xBounds.first,
\* xBounds.second] or y outside [yBounds.first, yBounds.second], the bounds
\* included; the log holds one out-of-bounds diagnostic per offending
\* location, with its 1-based row, and nothing else; and no z coordinate
\* changes the result or the log.
C6_BoundsDecide ==
  (validated # <<>> /\ PassesOtherChecks(parsedSpec[1], parsedResults[1])) =>
    LET r == validated[1]
        spec == parsedSpec[1]
        off == Offending(world, spec)
    IN  /\ ~r.valid <=> (off # {})
        /\ Len(r.log) = Cardinality(off)
        /\ \A i \in 1..Len(r.log) :
             /\ r.log[i].check = "out of world bounds"
             /\ r.log[i].a \in off
             /\ \A j \in 1..Len(r.log) : i < j => r.log[i].a < r.log[j].a
        /\ \A l \in 1..spec.locations.rows : \A z \in ZValues :
             validateSensor(world, [spec EXCEPT !.locations.m[l][3] = z],
                            parsedResults[1]) = r

\* two locations, the first on the bounds and accepted, the second rejected
C6_Witness ==
  /\ validated # <<>>
  /\ PassesOtherChecks(parsedSpec[1], parsedResults[1])
  /\ parsedSpec[1].locations.rows = 2
  /\ parsedSpec[1].locations.m[1][1] = world.xBounds[1]
  /\ parsedSpec[1].locations.m[1][2] = world.yBounds[2]
  /\ validated[1].log = <<Diagnostic("out of world bounds", 2, 0)>>

\* C7: with MAGNETICS not in sensorsEnabled, parseSpec and parseSensorReadings
\* succeed without looking up an option or reading a file, whatever the
\* configuration holds, and return a default-constructed MagSpec with no
\* location rows and a default-constructed MagResults with no readings.
C7_DisabledReadsNothing ==
  ~Enabled =>
    /\ perr = "none"
    /\ optionsRead = {}
    /\ filesRead = {}
    /\ parsedSpec # <<>> =>
         (parsedSpec[1] \in DefaultMagSpecs /\ parsedSpec[1].locations.rows = 0)
    /\ parsedResults # <<>> =>
         (parsedResults[1] \in DefaultMagResults /\ MatrixSize(parsedResults[1].readings) = 0)

\* both have been parsed from a configuration without options and files
C7_Witness ==
  /\ ~Enabled
  /\ DOMAIN files = {}
  /\ parsedSpec # <<>>
  /\ parsedResults # <<>>
  /\ validated = <<>>
  /\ DOMAIN vm = {}

SameMagSpec(a, b) ==
  /\ SameMatrix(a.locations, b.locations)
  /\ a.voxelisation.xResolution = b.voxelisation.xResolution
  /\ a.voxelisation.yResolution = b.voxelisation.yResolution
  /\ a.voxelisation.zResolution = b.voxelisation.zResolution
  /\ a.voxelisation.supersample = b.voxelisation.supersample
  /\ a.noise.inverseGammaAlpha = b.noise.inverseGammaAlpha
  /\ a.noise.inverseGammaBeta = b.noise.inverseGammaBeta
  /\ a.backgroundField = b.backgroundField

C9_DisabledPasses ==
  (~Enabled /\ validated # <<>>) => (validated[1].valid /\ Len(validated[1].log) = 0)

\* C10: for an enabled sensor whose configured gridResolution has a component
\* <= 0, the spec parseSpec returns fails the voxelisation check.
C10_NonPositiveResolutionRejected ==
  (Enabled /\ validated # <<>> /\ written = <<>>
     /\ \E k \in 1..3 : vm[Option("magnetism", "gridResolution")][k] <= 0)
    => (~validated[1].valid /\ Count(validated[1].log, "voxelisation") = 1)

====
